---- MODULE Spec2Model ----
(***************************************************************************)
(* User registration endpoint POST /api/1.0/users of nodesocial.           *)
(*                                                                         *)
(* src/src/user/UserRouter.js declares three express-validator chains      *)
(* (username, email, password) followed by the async request handler;      *)
(* src/src/user/UserService.js holds save (bcrypt hash + User.create).     *)
(* The Sequelize model User (the User Store) and UserService.findByEmail   *)
(* are not part of the sources at hand; they are modelled from the         *)
(* collaborator contract of spec.md section 6.                             *)
(*                                                                         *)
(* A string is a sequence of one-character strings; a field of the JSON    *)
(* body is a record [t, s] with t in {"undefined", "null", "str"}.         *)
(***************************************************************************)
EXTENDS Integers, Sequences, FiniteSets, TLC

VARIABLES
    users,        \* the User table, in insertion order
    uniqueEmail,  \* whether the table carries a unique index on email
    pc,           \* per request: where its middleware stack stands
    body,         \* per request: req.body
    errors,       \* per request: the validation errors collected so far
    found,        \* per request: what the findByEmail lookup returned
    created,      \* per request: the record handed to User.create
    calls,        \* per request: collaborator calls made on its behalf
    response,     \* per request: what res.status(..).send(..) sent
    doneBefore    \* per request: the requests answered before it arrived

vars == <<users, uniqueEmail, pc, body, errors, found, created, calls,
          response, doneBefore>>

----------------------------------------------------------------------------
(* Bounds *)

NumReq == 2

Req == 1..NumReq

----------------------------------------------------------------------------
(* Values *)

Undefined == [t |-> "undefined", s |-> <<>>]
Null == [t |-> "null", s |-> <<>>]
Str(s) == [t |-> "str", s |-> s]

Rep(c, n) == [i \in 1..n |-> c]

LowerChars == {"a", "c", "d", "e", "l", "m", "o", "r", "s", "u", "w"}
UpperChars == {"A", "D", "L", "N", "P", "U"}
DigitChars == {"0", "1", "2", "3", "4", "5", "6", "7", "8", "9"}

IsLower(c) == c \in LowerChars
IsUpper(c) == c \in UpperChars
IsDigit(c) == c \in DigitChars
IsLetter(c) == IsLower(c) \/ IsUpper(c)

\* validator.js toString, as express-validator applies it before a standard
\* validator runs: null and undefined become the empty string.
toString(v) == IF v.t = "str" THEN v.s ELSE <<>>

----------------------------------------------------------------------------
(* The standard validators the chains name (validator.js, through           *)
(* express-validator ^6.12.1), each on the string toString yields.          *)

\* str.split(sep) for a one-character separator.
RECURSIVE SplitFrom(_, _, _, _)
SplitFrom(s, sep, i, cur) ==
    IF i > Len(s) THEN <<cur>>
    ELSE IF s[i] = sep THEN <<cur>> \o SplitFrom(s, sep, i + 1, <<>>)
    ELSE SplitFrom(s, sep, i + 1, Append(cur, s[i]))

Split(s, sep) == SplitFrom(s, sep, 1, <<>>)

\* parts.join(sep)
RECURSIVE Join(_, _)
Join(parts, sep) ==
    IF Len(parts) = 0 THEN <<>>
    ELSE IF Len(parts) = 1 THEN parts[1]
    ELSE parts[1] \o <<sep>> \o Join(Tail(parts), sep)

All(s, P(_)) == \A i \in 1..Len(s) : P(s[i])
Count(s, P(_)) == Cardinality({i \in 1..Len(s) : P(s[i])})

\* isEmpty(str): str.length === 0 (ignore_whitespace is off)
isEmpty(str) == Len(str) = 0

\* isLength(str, {min, max}); max = -1 stands for "no max given"
isLength(str, min, max) == Len(str) >= min /\ (max = -1 \/ Len(str) <= max)

\* isFQDN(str) with the defaults isEmail passes: a tld is required, of two
\* letters or more; every label is a non-empty run of letters, digits and
\* hyphens of at most 63 characters that neither starts nor ends with "-".
IsLabelChar(c) == IsLetter(c) \/ IsDigit(c) \/ c = "-"
isFQDN(str) ==
    LET parts == Split(str, ".")
        tld == parts[Len(parts)]
    IN  /\ Len(parts) >= 2
        /\ Len(tld) >= 2 /\ All(tld, IsLetter)
        /\ \A k \in 1..Len(parts) :
              /\ Len(parts[k]) <= 63
              /\ Len(parts[k]) >= 1 /\ All(parts[k], IsLabelChar)
              /\ parts[k][1] # "-" /\ parts[k][Len(parts[k])] # "-"

\* isEmail(str) with its defaults: the text after the last "@" is the
\* domain, the rest the user part; the domain is a FQDN and every
\* dot-separated piece of the user part is a non-empty run of atom
\* characters ("@" and "." are none).
IsAtomChar(c) == IsLetter(c) \/ IsDigit(c) \/ c \in {"-", "#", "_"}
isEmail(str) ==
    LET parts == Split(str, "@")
        domain == parts[Len(parts)]
        user == Join(SubSeq(parts, 1, Len(parts) - 1), "@")
        user_parts == Split(user, ".")
    IN  /\ Len(str) <= 254
        /\ Len(user) <= 64 /\ Len(domain) <= 254
        /\ isFQDN(domain)
        /\ \A k \in 1..Len(user_parts) :
              Len(user_parts[k]) >= 1 /\ All(user_parts[k], IsAtomChar)

\* isStrongPassword(str, options) with returnScore off: the counts of
\* lowercase, uppercase, digit and symbol characters and the length each
\* reach the option's minimum.
IsSymbol(c) == ~IsLower(c) /\ ~IsUpper(c) /\ ~IsDigit(c)
isStrongPassword(str, o) ==
    /\ Len(str) >= o.minLength
    /\ Count(str, IsLower) >= o.minLowercase
    /\ Count(str, IsUpper) >= o.minUppercase
    /\ Count(str, IsDigit) >= o.minNumbers
    /\ Count(str, IsSymbol) >= o.minSymbols

----------------------------------------------------------------------------
(* The chains of UserRouter.js *)

usernameMin == 4
usernameMax == 32
passwordMin == 6
saltRounds == 10

strongOptions ==
    [minLowercase |-> 1, minUppercase |-> 1, minNumbers |-> 1,
     minLength |-> 6, minSymbols |-> 0]

usernameNull == "Username cannot be null"
usernameSize == "Must have min 4 and max 32 characters"
emailNull == "E-mail cannot be null"
emailInvalid == "E-mail is not valid"
emailInUse == "E-mail already been used"
passwordNull == "Password cannot be null"
passwordSize == "Password must be at least 6 characters"
passwordPattern ==
    "Password must have at least 1 uppercase, 1 lowercase letter and 1 number"
userCreatedSuccess == "User created"

\* One standard validator of a chain, on the stringified value.
Passes(v, str) ==
    CASE v = "notEmpty" -> ~isEmpty(str)
      [] v = "usernameLength" -> isLength(str, usernameMin, usernameMax)
      [] v = "isEmail" -> isEmail(str)
      [] v = "passwordLength" -> isLength(str, passwordMin, -1)
      [] v = "isStrongPassword" -> isStrongPassword(str, strongOptions)

Validator(v, msg) == [item |-> "validator", v |-> v, msg |-> msg]
Bail == [item |-> "bail", v |-> "", msg |-> ""]

\* usernameChain without its bail().
usernameChain_NoBail ==
    << Validator("notEmpty", usernameNull),
       Validator("usernameLength", usernameSize) >>

\* check('username'): lines 8-13
usernameChain ==
    << Validator("notEmpty", usernameNull), Bail,
       Validator("usernameLength", usernameSize) >>

\* emailChain without the bail() after notEmpty.
emailChain_NoBail ==
    << Validator("notEmpty", emailNull),
       Validator("isEmail", emailInvalid), Bail >>

\* check('email'), up to the custom validator: lines 14-20
emailChain ==
    << Validator("notEmpty", emailNull), Bail,
       Validator("isEmail", emailInvalid), Bail >>

\* passwordChain without the bail() after isLength.
passwordChain_NoBail ==
    << Validator("notEmpty", passwordNull), Bail,
       Validator("passwordLength", passwordSize),
       Validator("isStrongPassword", passwordPattern) >>

\* check('password'): lines 27-43
passwordChain ==
    << Validator("notEmpty", passwordNull), Bail,
       Validator("passwordLength", passwordSize), Bail,
       Validator("isStrongPassword", passwordPattern) >>

Error(param, msg) == [param |-> param, msg |-> msg]

\* Running a chain on one field: the items run in order, a failing
\* validator adds its error, and bail() stops the chain once the field has
\* an error. Yields the field's errors.
RECURSIVE RunFrom(_, _, _, _, _)
RunFrom(chain, param, value, i, errs) ==
    IF i > Len(chain) THEN errs
    ELSE IF chain[i].item = "bail"
         THEN IF Len(errs) > 0 THEN errs
              ELSE RunFrom(chain, param, value, i + 1, errs)
    ELSE IF Passes(chain[i].v, toString(value))
         THEN RunFrom(chain, param, value, i + 1, errs)
    ELSE RunFrom(chain, param, value, i + 1,
                 Append(errs, Error(param, chain[i].msg)))

RunChain(chain, param, value) == RunFrom(chain, param, value, 1, <<>>)

----------------------------------------------------------------------------
(* The collaborators *)

None == [username |-> Undefined, email |-> Undefined, password |-> Undefined]

\* UserService.findByEmail(email): the first stored user with that email,
\* or none.
findByEmail(table, email) ==
    IF \E i \in 1..Len(table) : table[i].email = email
    THEN table[CHOOSE i \in 1..Len(table) :
                   /\ table[i].email = email
                   /\ \A j \in 1..(i - 1) : table[j].email # email]
    ELSE None

\* Whether the table's constraints admit the record.
Admits(table, unique, user) ==
    ~unique \/ \A i \in 1..Len(table) : table[i].email # user.email

Salts == {"salt1", "salt2"}

\* bcrypt.hash(password, saltRounds): "$2b$<cost>$" followed by the salt and
\* the digest of salt and password; the digest stands as the pair itself.
DecimalDigit(n) == <<"0", "1", "2", "3", "4", "5", "6", "7", "8", "9">>[n + 1]
bcryptHash(password, rounds, salt) ==
    Str(<<"$", "2", "b", "$", DecimalDigit(rounds \div 10),
          DecimalDigit(rounds % 10), "$", salt, "digest">> \o password.s)

----------------------------------------------------------------------------
(* Requests *)

NoResponse == [status |-> 0, body |-> [none |-> TRUE]]
NoCalls == [findByEmail |-> 0, hash |-> 0, create |-> 0, inserted |-> 0]
NoBody == [username |-> Undefined, email |-> Undefined, password |-> Undefined]

Init ==
    /\ users = <<>>
    /\ uniqueEmail \in BOOLEAN
    /\ pc = [r \in Req |-> "idle"]
    /\ body = [r \in Req |-> NoBody]
    /\ errors = [r \in Req |-> <<>>]
    /\ found = [r \in Req |-> None]
    /\ created = [r \in Req |-> None]
    /\ calls = [r \in Req |-> NoCalls]
    /\ response = [r \in Req |-> NoResponse]
    /\ doneBefore = [r \in Req |-> {}]

\* A POST /api/1.0/users arrives with a JSON body.
Post(r, payload) ==
    /\ pc[r] = "idle"
    /\ body' = [body EXCEPT ![r] = payload]
    /\ doneBefore' = [doneBefore EXCEPT
                        ![r] = {q \in Req : pc[q] \in {"done", "rejected"}}]
    /\ pc' = [pc EXCEPT ![r] = "username"]
    /\ UNCHANGED <<users, uniqueEmail, errors, found, created, calls, response>>

\* check('username') runs and calls next().
ValidateUsername(r) ==
    /\ pc[r] = "username"
    /\ errors' = [errors EXCEPT
                    ![r] = @ \o RunChain(usernameChain, "username",
                                         body[r].username)]
    /\ pc' = [pc EXCEPT ![r] = "email"]
    /\ UNCHANGED <<users, uniqueEmail, body, found, created, calls, response,
                   doneBefore>>

\* check('email') runs up to its custom validator: with an error the chain
\* has bailed and next() is called, without one the custom validator calls
\* UserService.findByEmail and awaits it.
ValidateEmail(r) ==
    /\ pc[r] = "email"
    /\ LET errs == RunChain(emailChain, "email", body[r].email)
       IN  IF Len(errs) > 0
           THEN /\ errors' = [errors EXCEPT ![r] = @ \o errs]
                /\ pc' = [pc EXCEPT ![r] = "password"]
                /\ calls' = calls
           ELSE /\ errors' = errors
                /\ pc' = [pc EXCEPT ![r] = "findByEmail"]
                /\ calls' = [calls EXCEPT ![r].findByEmail = @ + 1]
    /\ UNCHANGED <<users, uniqueEmail, body, found, created, response,
                   doneBefore>>

\* EmailLookup with a custom validator that never throws.
EmailLookup_NoThrow(r) ==
    /\ pc[r] = "findByEmail"
    /\ found' = [found EXCEPT ![r] = findByEmail(users, body[r].email)]
    /\ pc' = [pc EXCEPT ![r] = "password"]
    /\ UNCHANGED <<users, uniqueEmail, body, errors, created, calls, response,
                   doneBefore>>

\* The lookup resolves: the custom validator throws when a user came back,
\* and the thrown message is the field's error.
EmailLookup(r) ==
    /\ pc[r] = "findByEmail"
    /\ LET user == findByEmail(users, body[r].email)
       IN  /\ found' = [found EXCEPT ![r] = user]
           /\ errors' = [errors EXCEPT
                           ![r] = IF user # None
                                  THEN Append(@, Error("email", emailInUse))
                                  ELSE @]
    /\ pc' = [pc EXCEPT ![r] = "password"]
    /\ UNCHANGED <<users, uniqueEmail, body, created, calls, response,
                   doneBefore>>

\* ValidatePassword that gives up on a request that already has an error.
ValidatePassword_SkipsOnError(r) ==
    /\ pc[r] = "password"
    /\ errors' = [errors EXCEPT
                    ![r] = IF Len(@) > 0 THEN @
                           ELSE RunChain(passwordChain, "password",
                                         body[r].password)]
    /\ pc' = [pc EXCEPT ![r] = "handler"]
    /\ UNCHANGED <<users, uniqueEmail, body, found, created, calls, response,
                   doneBefore>>

\* check('password') runs and calls next().
ValidatePassword(r) ==
    /\ pc[r] = "password"
    /\ errors' = [errors EXCEPT
                    ![r] = @ \o RunChain(passwordChain, "password",
                                         body[r].password)]
    /\ pc' = [pc EXCEPT ![r] = "handler"]
    /\ UNCHANGED <<users, uniqueEmail, body, found, created, calls, response,
                   doneBefore>>

\* Object.keys order of validationErrors after validationErrors[param] = msg:
\* a new key goes last, a known key keeps its place and takes the new value.
Put(mapping, param, msg) ==
    IF \E i \in 1..Len(mapping) : mapping[i].param = param
    THEN [i \in 1..Len(mapping) |->
            IF mapping[i].param = param THEN Error(param, msg) ELSE mapping[i]]
    ELSE Append(mapping, Error(param, msg))

\* ToValidationErrors that starts a new object for every error.
ToValidationErrors_LastOnly(errs, mapping) ==
    IF Len(errs) = 0 THEN mapping ELSE <<errs[Len(errs)]>>

\* errors.array().forEach(error => validationErrors[error.param] = error.msg)
RECURSIVE ToValidationErrors(_, _)
ToValidationErrors(errs, mapping) ==
    IF Len(errs) = 0 THEN mapping
    ELSE ToValidationErrors(Tail(errs),
                            Put(mapping, Head(errs).param, Head(errs).msg))

\* Handler without the return in front of res.status(400).send: the errors
\* are sent and save is called all the same.
Handler_NoReturn(r) ==
    /\ pc[r] = "handler"
    /\ response' = [response EXCEPT ![r] =
          IF Len(errors[r]) > 0
          THEN [status |-> 400,
                body |-> [validationErrors |->
                             ToValidationErrors(errors[r], <<>>)]]
          ELSE @]
    /\ pc' = [pc EXCEPT ![r] = "hash"]
    /\ calls' = [calls EXCEPT ![r].hash = @ + 1]
    /\ UNCHANGED <<users, uniqueEmail, body, errors, found, created,
                   doneBefore>>

\* The handler, lines 44-57, up to its first await: with validation errors
\* it sends 400 and the mapping, without it calls UserService.save, which
\* calls bcrypt.hash and awaits it.
Handler(r) ==
    /\ pc[r] = "handler"
    /\ IF Len(errors[r]) > 0
       THEN /\ response' = [response EXCEPT ![r] =
                  [status |-> 400,
                   body |-> [validationErrors |->
                                ToValidationErrors(errors[r], <<>>)]]]
            /\ pc' = [pc EXCEPT ![r] = "done"]
            /\ calls' = calls
       ELSE /\ response' = response
            /\ pc' = [pc EXCEPT ![r] = "hash"]
            /\ calls' = [calls EXCEPT ![r].hash = @ + 1]
    /\ UNCHANGED <<users, uniqueEmail, body, errors, found, created,
                   doneBefore>>

\* SaveUser that stores the body as it came.
SaveUser_Plain(reqBody, hash) == reqBody

\* save, lines 8-11: the record built from the body and the hash.
SaveUser(reqBody, hash) == [reqBody EXCEPT !.password = hash]

\* Hash with User.create called and not awaited: save returns at once.
Hash_CreateNotAwaited(r) ==
    /\ pc[r] = "hash"
    /\ \E salt \in Salts :
          created' = [created EXCEPT ![r] =
              SaveUser(body[r], bcryptHash(body[r].password, saltRounds, salt))]
    /\ calls' = [calls EXCEPT ![r].create = @ + 1]
    /\ pc' = [pc EXCEPT ![r] = "respond"]
    /\ UNCHANGED <<users, uniqueEmail, body, errors, found, response,
                   doneBefore>>

\* save, lines 6-13: bcrypt.hash resolves, the record is built and
\* User.create is called and awaited.
Hash(r) ==
    /\ pc[r] = "hash"
    /\ \E salt \in Salts :
          created' = [created EXCEPT ![r] =
              SaveUser(body[r], bcryptHash(body[r].password, saltRounds, salt))]
    /\ calls' = [calls EXCEPT ![r].create = @ + 1]
    /\ pc' = [pc EXCEPT ![r] = "create"]
    /\ UNCHANGED <<users, uniqueEmail, body, errors, found, response,
                   doneBefore>>

\* User.create resolves: the record is in the table.
Create(r) ==
    /\ pc[r] = "create"
    /\ Admits(users, uniqueEmail, created[r])
    /\ users' = Append(users, created[r])
    /\ calls' = [calls EXCEPT ![r].inserted = @ + 1]
    /\ pc' = [pc EXCEPT ![r] = "respond"]
    /\ UNCHANGED <<uniqueEmail, body, errors, found, created, response,
                   doneBefore>>

\* User.create rejects with a StorageError (a constraint violation or an
\* I/O failure): save rejects, and so does the handler, which has no catch
\* and no next(err); nothing is sent.
CreateFails(r) ==
    /\ pc[r] = "create"
    /\ pc' = [pc EXCEPT ![r] = "rejected"]
    /\ UNCHANGED <<users, uniqueEmail, body, errors, found, created, calls,
                   response, doneBefore>>

\* The handler resumes after save, line 56.
Respond(r) ==
    /\ pc[r] = "respond"
    /\ response' = [response EXCEPT ![r] =
          [status |-> 200, body |-> [message |-> userCreatedSuccess]]]
    /\ pc' = [pc EXCEPT ![r] = "done"]
    /\ UNCHANGED <<users, uniqueEmail, body, errors, found, created, calls,
                   doneBefore>>

----------------------------------------------------------------------------
(* Payloads *)

user1 == Str(<<"u", "s", "e", "r", "1">>)
mail1 == Str(<<"u", "1", "@", "m", ".", "c", "o">>)
mail2 == Str(<<"u", "2", "@", "m", ".", "c", "o">>)
P4ssword == Str(<<"P", "4", "s", "s", "w", "o", "r", "d">>)

\* Concurrent requests: valid payloads on two addresses, and a payload
\* that fails validation.
Payloads ==
    [username : {user1, Null}, email : {mail1, mail2}, password : {P4ssword}]

Step(r) ==
    \/ ValidateUsername(r)
    \/ ValidateEmail(r)
    \/ EmailLookup(r)
    \/ ValidatePassword(r)
    \/ Handler(r)
    \/ Hash(r)
    \/ Create(r)
    \/ CreateFails(r)
    \/ Respond(r)

Next ==
    \/ \E r \in Req : \E payload \in Payloads : Post(r, payload)
    \/ \E r \in Req : Step(r)

Spec == Init /\ [][Next]_vars

----------------------------------------------------------------------------
(* One request at a time, over payloads that exercise every validator, on   *)
(* an empty table and on a table that holds a registered user.              *)

registered == SaveUser([username |-> user1, email |-> mail1,
                        password |-> P4ssword],
                       bcryptHash(P4ssword, saltRounds, "salt1"))

Usernames ==
    {Undefined, Null, Str(<<>>), Str(Rep("u", usernameMin - 1)),
     Str(Rep("u", usernameMin)), user1, Str(Rep("u", usernameMax)),
     Str(Rep("u", usernameMax + 1))}

Emails ==
    {Undefined, Null, Str(<<>>), mail1, mail2,
     Str(<<"@", "m", ".", "c", "o">>),
     Str(<<"u", "1", ".", "m", ".", "c", "o">>),
     Str(<<"u", "1", "@", ".", "c", "o">>),
     Str(<<"u", "1", "@", "m">>),
     Str(<<"u", "@", "u", "@", "m", ".", "c", "o">>)}

Passwords ==
    {Undefined, Null, Str(<<>>), P4ssword,
     Str(<<"P", "4", "s", "s", "w">>),
     Str(<<"a", "l", "l">>),
     Str(<<"P", "4", "s", "s", "w", "o">>),
     Str(<<"a", "l", "l", "l", "o", "w">>),
     Str(<<"A", "L", "L", "U", "P", "P">>),
     Str(<<"1", "2", "3", "4", "5", "6">>),
     Str(<<"l", "o", "w", "A", "N", "D">>),
     Str(<<"l", "o", "w", "1", "2", "3">>),
     Str(<<"U", "P", "P", "1", "2", "3">>),
     Str(<<"#", "#", "#", "#", "#", "#">>)}

PayloadsV == [username : Usernames, email : Emails, password : Passwords]

InitV ==
    /\ users \in {<<>>, <<registered>>}
    /\ uniqueEmail \in BOOLEAN
    /\ pc = [r \in Req |-> "idle"]
    /\ body = [r \in Req |-> NoBody]
    /\ errors = [r \in Req |-> <<>>]
    /\ found = [r \in Req |-> None]
    /\ created = [r \in Req |-> None]
    /\ calls = [r \in Req |-> NoCalls]
    /\ response = [r \in Req |-> NoResponse]
    /\ doneBefore = [r \in Req |-> {}]

NextV ==
    \/ \E payload \in PayloadsV : Post(1, payload)
    \/ Step(1)

SpecV == InitV /\ [][NextV]_vars

----------------------------------------------------------------------------
(* Claims checked under Spec: concurrent requests *)

Sent(r) == response[r].status # 0
Keys(mapping) == [i \in 1..Len(mapping) |-> mapping[i].param]
WithEmail(table, email) == {i \in 1..Len(table) : table[i].email = email}

\* C1: a call answered 400 has made no hash call, no User.create call and
\* added no record, and so has every call that holds a validation error; a
\* call answered 200 has called User.create exactly once and added exactly
\* one record; the table holds exactly the records the calls added.
C1_OneRecordPerSuccess ==
    /\ \A r \in Req :
          /\ (Len(errors[r]) > 0 \/ response[r].status = 400) =>
                calls[r].hash = 0 /\ calls[r].create = 0
                /\ calls[r].inserted = 0
          /\ response[r].status = 200 =>
                calls[r].hash = 1 /\ calls[r].create = 1
                /\ calls[r].inserted = 1
          /\ calls[r].inserted \in {0, 1}
    /\ Len(users) = Cardinality({r \in Req : calls[r].inserted = 1})

C1_Witness ==
    \E r, q \in Req :
        /\ response[r].status = 200
        /\ response[q].status = 400
        /\ Len(users) = 1

\* C2: no two User records share the same email.
C2_NoTwoRecordsShareEmail ==
    \A i, j \in 1..Len(users) : i # j => users[i].email # users[j].email

\* A request whose username and password pass their rules.
OtherwiseValid(b) ==
    /\ b.username.t = "str"
    /\ Len(b.username.s) >= 4 /\ Len(b.username.s) <= 32
    /\ b.password = P4ssword

\* The scenario of C3: q arrived after r was answered 200, carries r's
\* email and is otherwise valid, and no other request carries that email.
Resubmitted(r, q) ==
    /\ r # q
    /\ r \in doneBefore[q]
    /\ response[r].status = 200
    /\ body[q].email = body[r].email
    /\ OtherwiseValid(body[q])
    /\ \A o \in Req \ {r, q} : pc[o] = "idle" \/ body[o].email # body[r].email

IsBcryptOutput(v) ==
    /\ v.t = "str"
    /\ Len(v.s) > 7
    /\ SubSeq(v.s, 1, 7) = <<"$", "2", "b", "$", "1", "0", "$">>

\* C9: the record a request hands to User.create, and so every record of
\* the table, carries the username and email of the request's body and as
\* password a bcrypt output that differs from the submitted password.
C9_PasswordStoredHashed ==
    /\ \A r \in Req :
          calls[r].create > 0 =>
              /\ created[r].username = body[r].username
              /\ created[r].email = body[r].email
              /\ created[r].password # body[r].password
              /\ IsBcryptOutput(created[r].password)
    /\ \A i \in 1..Len(users) :
          \E r \in Req : calls[r].inserted = 1 /\ users[i] = created[r]

C9_Witness ==
    \E r \in Req :
        /\ response[r].status = 200
        /\ \E i \in 1..Len(users) :
              /\ users[i].username = user1
              /\ users[i].email = mail1
              /\ users[i].password # P4ssword

\* The handler of request r has come to its end.
Finished(r) == pc[r] \in {"done", "rejected"}

\* C10: a request whose handler has come to its end has been sent a
\* response, also when User.create failed.
C10_EveryRequestAnswered == \A r \in Req : Finished(r) => Sent(r)

----------------------------------------------------------------------------
(* Claims checked under SpecV: one request, every validator exercised *)

AfterHandler == {"done", "hash", "create", "respond", "rejected"}

\* C4: a response is either 400 with body {validationErrors}, sent for a
\* request with validation errors and holding exactly those errors, or 200
\* with body {message: 'User created'}, sent for a request with none; a
\* request with an error is answered 400 by the handler and never 200.
C4_StatusFollowsMapping ==
    \A r \in Req :
        /\ Sent(r) =>
              \/ /\ response[r].status = 400
                 /\ DOMAIN response[r].body = {"validationErrors"}
                 /\ response[r].body.validationErrors = errors[r]
                 /\ Len(errors[r]) > 0
              \/ /\ response[r].status = 200
                 /\ response[r].body = [message |-> "User created"]
                 /\ Len(errors[r]) = 0
        /\ (pc[r] \in AfterHandler /\ Len(errors[r]) > 0) =>
              response[r].status = 400 /\ pc[r] = "done"
        /\ (pc[r] = "done" /\ Len(errors[r]) = 0) => response[r].status = 200

C4_Witness ==
    \E r \in Req :
        /\ response[r].status = 400
        /\ Len(response[r].body.validationErrors) = 3

\* What the rules of spec.md 4.1 call a violation, field by field.
HasChar(s, S) == \E i \in 1..Len(s) : s[i] \in S
ValidEmails == {mail1, mail2}
UsernameViolated(b) ==
    ~(b.username.t = "str" /\ Len(b.username.s) >= 4
      /\ Len(b.username.s) <= 32)
EmailViolated(r) == body[r].email \notin ValidEmails \/ found[r] # None
PasswordViolated(b) ==
    ~(/\ b.password.t = "str"
      /\ Len(b.password.s) >= 6
      /\ HasChar(b.password.s, LowerChars)
      /\ HasChar(b.password.s, UpperChars)
      /\ HasChar(b.password.s, DigitChars))
Violated(r, field) ==
    CASE field = "username" -> UsernameViolated(body[r])
      [] field = "email" -> EmailViolated(r)
      [] field = "password" -> PasswordViolated(body[r])
ViolatedFields(r) ==
    SelectSeq(<<"username", "email", "password">>, LAMBDA f : Violated(r, f))
FieldMessages(field) ==
    CASE field = "username" -> {usernameNull, usernameSize}
      [] field = "email" -> {emailNull, emailInvalid, emailInUse}
      [] field = "password" -> {passwordNull, passwordSize, passwordPattern}

\* C5: the keys of the mapping a request is answered with are exactly its
\* violated fields, in the order username, email, password, each once and
\* with one message of its own field; a request the handler passes on to
\* save has no violated field.
C5_FieldsEvaluatedIndependently ==
    \A r \in Req :
        /\ pc[r] \in AfterHandler =>
              /\ Keys(errors[r]) = ViolatedFields(r)
              /\ \A i \in 1..Len(errors[r]) :
                    errors[r][i].msg \in FieldMessages(errors[r][i].param)
        /\ response[r].status = 400 =>
              Keys(response[r].body.validationErrors) = ViolatedFields(r)
        /\ (pc[r] \in AfterHandler /\ response[r].status # 400) =>
              ViolatedFields(r) = <<>>

C5_Witness ==
    \E r \in Req :
        /\ response[r].status = 400
        /\ body[r].username = Null
        /\ found[r] = registered
        /\ PasswordViolated(body[r])
        /\ Keys(response[r].body.validationErrors)
             = <<"username", "email", "password">>

\* The errors of one field, in the order they were added.
ErrorsOf(r, field) == SelectSeq(errors[r], LAMBDA e : e.param = field)
Empty(v) == v.t # "str" \/ v.s = <<>>
AfterEmail == {"password", "handler"} \cup AfterHandler
AfterPassword == {"handler"} \cup AfterHandler
AfterUsername == {"email", "findByEmail"} \cup AfterEmail

\* C6: an absent, null or empty email gets only the "cannot be null"
\* message and a non-empty invalid one only the "not valid" message, both
\* without a findByEmail call; findByEmail is called only, and once, for a
\* valid email, which gets the "in use" message when a user came back and
\* no message when none did.
C6_EmailChecksInOrder ==
    \A r \in Req :
        /\ calls[r].findByEmail > 0 => body[r].email \in ValidEmails
        /\ pc[r] \in AfterEmail =>
              /\ Empty(body[r].email) =>
                    /\ ErrorsOf(r, "email") = <<Error("email", emailNull)>>
                    /\ calls[r].findByEmail = 0
              /\ (~Empty(body[r].email) /\ body[r].email \notin ValidEmails) =>
                    /\ ErrorsOf(r, "email") = <<Error("email", emailInvalid)>>
                    /\ calls[r].findByEmail = 0
              /\ body[r].email \in ValidEmails =>
                    /\ calls[r].findByEmail = 1
                    /\ ErrorsOf(r, "email") =
                          IF found[r] = None THEN <<>>
                          ELSE <<Error("email", emailInUse)>>
                    /\ found[r] = None <=>
                          WithEmail(users, body[r].email) \subseteq
                              {i \in 1..Len(users) :
                                  calls[r].inserted = 1 /\ i = Len(users)}

C6_Witness ==
    \E r \in Req :
        /\ pc[r] = "done"
        /\ body[r].email = Str(<<"u", "1", "@", ".", "c", "o">>)
        /\ response[r].body.validationErrors
             = <<Error("email", "E-mail is not valid")>>

PasswordRulesMet(s) ==
    /\ HasChar(s, LowerChars)
    /\ HasChar(s, UpperChars)
    /\ HasChar(s, DigitChars)

\* C7: an absent, null or empty password gets only the "cannot be null"
\* message, a non-empty one shorter than 6 only the "at least 6
\* characters" message, one of 6 or more characters that lacks a lowercase
\* letter, an uppercase letter or a digit only the "pattern" message, and
\* one of 6 or more characters with all three no message.
C7_PasswordChecksInOrder ==
    \A r \in Req :
        pc[r] \in AfterPassword =>
            LET p == body[r].password
            IN  ErrorsOf(r, "password") =
                  IF Empty(p) THEN <<Error("password", passwordNull)>>
                  ELSE IF Len(p.s) < 6
                       THEN <<Error("password", passwordSize)>>
                  ELSE IF ~PasswordRulesMet(p.s)
                       THEN <<Error("password", passwordPattern)>>
                  ELSE <<>>

C7_Witness ==
    \E r \in Req :
        /\ pc[r] = "done"
        /\ body[r].password = Str(<<"a", "l", "l">>)
        /\ response[r].body.validationErrors
             = <<Error("password", "Password must be at least 6 characters")>>

EntryOf(mapping, field) == SelectSeq(mapping, LAMBDA e : e.param = field)

\* C8: a request with an absent, null or empty username is answered 400
\* with the "cannot be null" message under username, one with a non-empty
\* username shorter than 4 or longer than 32 characters 400 with the size
\* message under username, and a username of 4 to 32 characters gets no
\* username entry.
C8_UsernameChecks ==
    \A r \in Req :
        LET u == body[r].username
            expected ==
                IF Empty(u) THEN <<Error("username", usernameNull)>>
                ELSE IF Len(u.s) < 4 \/ Len(u.s) > 32
                     THEN <<Error("username", usernameSize)>>
                ELSE <<>>
        IN  /\ pc[r] \in AfterUsername => ErrorsOf(r, "username") = expected
            /\ (pc[r] \in AfterHandler /\ expected # <<>>) =>
                  /\ response[r].status = 400
                  /\ EntryOf(response[r].body.validationErrors, "username")
                       = expected
            /\ (response[r].status = 400 /\ expected = <<>>) =>
                  EntryOf(response[r].body.validationErrors, "username") = <<>>

C8_Witness ==
    \E r \in Req :
        /\ pc[r] = "done"
        /\ body[r].username = Str(Rep("u", 33))
        /\ body[r].email = mail2
        /\ body[r].password = P4ssword
        /\ response[r].body.validationErrors
             = <<Error("username", "Must have min 4 and max 32 characters")>>

----------------------------------------------------------------------------
(* Claims checked under Spec: the order of the steps *)

\* Two different requests that carry the same email and have both called
\* User.create.
BothCreate(r, q) ==
    /\ r # q
    /\ body[r].email = body[q].email
    /\ calls[r].create = 1
    /\ calls[q].create = 1

\* C11: the lookup and the insert are separate steps. Two requests with
\* one email that have both called User.create were both told "no user"
\* by their lookup, with nothing in between to stop either; both get
\* their record in only when the table has no unique index on email, and
\* with that index the second create is refused. The table holds two
\* records with one email only without the index.
C11_RaceDecidedByStore ==
    /\ \A r, q \in Req :
          BothCreate(r, q) =>
              /\ found[r] = None /\ found[q] = None
              /\ calls[r].findByEmail = 1 /\ calls[q].findByEmail = 1
              /\ errors[r] = <<>> /\ errors[q] = <<>>
              /\ (calls[r].inserted = 1 /\ calls[q].inserted = 1) =>
                    ~uniqueEmail
              /\ (uniqueEmail /\ calls[q].inserted = 1 /\ pc[r] = "create") =>
                    ~Admits(users, uniqueEmail, created[r])
    /\ \A i, j \in 1..Len(users) :
          (i # j /\ users[i].email = users[j].email) => ~uniqueEmail

\* Both lookups have returned no user and both requests have called
\* User.create with the same email, before either record is in the table.
C11_Witness ==
    \E r, q \in Req :
        /\ BothCreate(r, q)
        /\ pc[r] = "create" /\ pc[q] = "create"
        /\ created[r].email = mail1 /\ created[q].email = mail1
        /\ found[r] = None /\ found[q] = None
        /\ users = <<>>

\* C12: the steps of a request come in the order lookup, hash, create,
\* response: bcrypt.hash is called only after the lookup returned no user,
\* User.create only after the hash, a record goes in only after the
\* create call, and a request answered 200 has its record, with the
\* email it submitted, in the table.
C12_SuccessAfterCreate ==
    \A r \in Req :
        /\ calls[r].hash = 1 =>
              /\ calls[r].findByEmail = 1 /\ found[r] = None
              /\ pc[r] \in {"hash", "create", "respond", "done", "rejected"}
        /\ calls[r].create = 1 =>
              /\ calls[r].hash = 1
              /\ pc[r] \in {"create", "respond", "done", "rejected"}
        /\ calls[r].inserted = 1 =>
              /\ calls[r].create = 1
              /\ pc[r] \in {"respond", "done"}
        /\ pc[r] = "respond" => calls[r].inserted = 1 /\ ~Sent(r)
        /\ response[r].status = 200 =>
              /\ calls[r].inserted = 1
              /\ \E i \in 1..Len(users) :
                    /\ users[i] = created[r]
                    /\ users[i].email = body[r].email

C12_Witness ==
    \E r \in Req :
        /\ response[r].status = 200
        /\ pc[r] = "done"
        /\ \E i \in 1..Len(users) : users[i].email = body[r].email

====
